---- MODULE Spec2Model ----
(***************************************************************************)
(* A model of the user-management service (NestJS + gRPC + RxJS):          *)
(*   - the server's UserService (apps/server/src/user/user.service.ts):    *)
(*     the in-memory users array and create / login / findOne / findAll /  *)
(*     queryUsers, with the awaits of create and login as separate steps;  *)
(*     login's token and verifyToken against a clock in milliseconds;      *)
(*   - the server's UserController.login error mapping;                    *)
(*   - the client's UserService (apps/client/src/user/user.service.ts):    *)
(*     the shared pageRequest Subject, initPagination's tap/switchMap      *)
(*     pipeline per subscriber, nextPage and queryUsers.                   *)
(***************************************************************************)
EXTENDS Integers, Sequences, FiniteSets, TLC

VARIABLES
    users,      \* server UserService.users: the array of User records
    uuids,      \* how many ids randomUUID() has handed out
    call,       \* per server caller: the call in progress and, once finished, its outcome
    subs,       \* client: the observers of the pageRequest Subject
    inner,      \* client: per subscriber, switchMap's active inner gRPC call
    query,      \* client: per requester, the queryUsers(page, limit) call
    computed,   \* history: per requester, server computations run for its latest emission
    delivered,  \* history: per requester, results delivered that its latest emission caused
    now,        \* the server's clock, in milliseconds (Date.now())
    held        \* per server caller: the token it kept from its last login

vars == <<users, uuids, call, subs, inner, query, computed, delivered, now, held>>
serverVars == <<users, uuids, call, now, held>>
clientVars == <<subs, inner, query, computed, delivered>>

----------------------------------------------------------------------------
(* Bounds and input domains *)

\* the directory is capped at MaxUsers records (no create is made beyond it)
MaxUsers == 3
\* the most records a directory that is read page by page holds
MaxPageUsers == 6

Callers == {"c1", "c2"}
Emails == {"a@x.com", "b@x.com"}
\* the emails of callers that take turns (the three of the listing scenario)
SeqEmails == {"a@x.com", "b@x.com", "c@x.com"}
Passwords == {"pw1", "pw2"}
\* a password field that did not arrive (undefined in the DTO)
Undefined == "undefined"
Salts == {"salt1"}

\* localeCompare on the modelled emails: their rank in lexicographic order
\* the emails of the directories that span more than one page
PageEmails == {"a@x.com", "b@x.com", "c@x.com", "d@x.com"}
EmailRank ==
    [e \in PageEmails |->
        CASE e = "a@x.com" -> 1 [] e = "b@x.com" -> 2 [] e = "c@x.com" -> 3
          [] e = "d@x.com" -> 4]

UserDtos == [email : Emails, password : Passwords \cup {Undefined}, firstName : {"n"}]
WellFormedDtos == [email : SeqEmails, password : Passwords, firstName : {"n"}]

Idle == [op |-> "idle"]
Requesters == {"r1", "r2"}
NoCall == [st |-> "none"]
NoQuery == [pc |-> "idle"]
NoToken == [token |-> "none"]

\* the state after construction: an empty directory, nothing subscribed
Init ==
    /\ users = <<>>
    /\ uuids = 0
    /\ call = [c \in Callers |-> Idle]
    /\ subs = {}
    /\ inner = [q \in Requesters |-> NoCall]
    /\ query = [q \in Requesters |-> NoQuery]
    /\ computed = [q \in Requesters |-> 0]
    /\ delivered = [q \in Requesters |-> 0]
    /\ now = 0
    /\ held = [c \in Callers |-> NoToken]

----------------------------------------------------------------------------
(* bcrypt *)

\* hash(data, 10): a salted digest; the digest is a function of salt and data
BcryptRounds == 10
hash(data, salt) == [rounds |-> BcryptRounds, salt |-> salt, digest |-> <<salt, data>>]

\* hash and compare reject when the data argument is missing
hashRejects(data) == data = Undefined

\* compare(data, encrypted): re-hash data with the salt of encrypted
compare(data, encrypted) == hash(data, encrypted.salt) = encrypted

----------------------------------------------------------------------------
(* Server UserService *)

\* the emails of the records in the directory
emailsOf(us) == {us[i].email : i \in 1..Len(us)}

\* this.users.some(...) that looks at the newest record only
some_email_last_only(us, email) == Len(us) > 0 /\ us[Len(us)].email = email

\* this.users.some((u) => u.email === userDto.email)
some_email(us, email) == \E i \in 1..Len(us) : us[i].email = email

\* the first index in 1..Len(us) that is in hits, or 0: Array.prototype.find
\* returns the first element, in index order, that satisfies its predicate
first_of(hits) == IF hits = {} THEN 0 ELSE CHOOSE i \in hits : \A j \in hits : i <= j

\* this.users.find((u) => u.email === email)
find_by_email(us, email) == first_of({i \in 1..Len(us) : us[i].email = email})

\* a lookup that stops at the first record whatever its id
find_first_record(us, id) == IF Len(us) > 0 THEN 1 ELSE 0

\* this.users.find((user) => user.id === id)
find_by_id(us, id) == first_of({i \in 1..Len(us) : us[i].id = id})

\* the exception create throws for a registered email
DuplicateEmailError(email) ==
    [name |-> "UnauthorizedException", statusCode |-> 409,
     message |-> <<"User with email", email, "already registered">>]

\* the rejection of bcrypt's hash, propagated by create
HashFault == [name |-> "Error", message |-> "data and salt arguments required"]

\* create, up to its await: the uniqueness check, then hashing starts.
\* History fields of the call, read by no action: taken (was the email in the
\* directory when the call was made) and before (the record count then).
create_check(c, userDto) ==
    /\ call[c] = Idle
    /\ IF some_email(users, userDto.email)
       THEN call' = [call EXCEPT ![c] =
                [op |-> "create", pc |-> "done", dto |-> userDto,
                 taken |-> userDto.email \in emailsOf(users), before |-> Len(users),
                 out |-> [ok |-> FALSE, err |-> DuplicateEmailError(userDto.email)]]]
       ELSE call' = [call EXCEPT ![c] =
                [op |-> "create", pc |-> "hash", dto |-> userDto,
                 taken |-> userDto.email \in emailsOf(users), before |-> Len(users)]]
    /\ UNCHANGED <<users, uuids, now, held>>

\* create's resumption with a digest already pushed before hashing resolved
create_resume_push_first(c, salt) ==
    /\ call[c].op = "create" /\ call[c].pc = "hash"
    /\ LET dto == call[c].dto
           id == uuids + 1
       IN IF hashRejects(dto.password)
          THEN /\ users' = Append(users, [id |-> id, email |-> dto.email,
                                firstName |-> dto.firstName, password |-> dto.password])
               /\ uuids' = id
               /\ UNCHANGED <<now, held>>
               /\ call' = [call EXCEPT ![c] = [@ EXCEPT !.pc = "done"] @@
                                [out |-> [ok |-> FALSE, err |-> HashFault]]]
          ELSE /\ users' = Append(users, [id |-> id, email |-> dto.email,
                                firstName |-> dto.firstName,
                                password |-> hash(dto.password, salt)])
               /\ uuids' = id
               /\ UNCHANGED <<now, held>>
               /\ call' = [call EXCEPT ![c] = [@ EXCEPT !.pc = "done"] @@
                                [out |-> [ok |-> TRUE, id |-> id]]]

\* create's resumption that pushes the password as it was given, unhashed
create_resume_unhashed(c, salt) ==
    /\ call[c].op = "create" /\ call[c].pc = "hash"
    /\ LET dto == call[c].dto
           id == uuids + 1
       IN /\ users' = Append(users, [id |-> id, email |-> dto.email,
                           firstName |-> dto.firstName,
                           password |-> [plaintext |-> dto.password]])
          /\ uuids' = id
          /\ UNCHANGED <<now, held>>
          /\ call' = [call EXCEPT ![c] = [@ EXCEPT !.pc = "done"] @@
                           [out |-> [ok |-> TRUE, id |-> id]]]

\* create's resumption that puts the new User at the front (unshift for push)
create_resume_unshift(c, salt) ==
    /\ call[c].op = "create" /\ call[c].pc = "hash"
    /\ LET dto == call[c].dto
           id == uuids + 1
       IN IF hashRejects(dto.password)
          THEN /\ UNCHANGED <<users, uuids, now, held>>
               /\ call' = [call EXCEPT ![c] = [@ EXCEPT !.pc = "done"] @@
                                [out |-> [ok |-> FALSE, err |-> HashFault]]]
          ELSE /\ users' = <<[id |-> id, email |-> dto.email,
                              firstName |-> dto.firstName,
                              password |-> hash(dto.password, salt)]>> \o users
               /\ uuids' = id
               /\ UNCHANGED <<now, held>>
               /\ call' = [call EXCEPT ![c] = [@ EXCEPT !.pc = "done"] @@
                                [out |-> [ok |-> TRUE, id |-> id]]]

\* create, after its await: hash rejected (the call throws), or the new User
\* { ...userDto, id: randomUUID(), password: hashedPassword } is pushed
create_resume(c, salt) ==
    /\ call[c].op = "create" /\ call[c].pc = "hash"
    /\ LET dto == call[c].dto
           id == uuids + 1
       IN IF hashRejects(dto.password)
          THEN /\ UNCHANGED <<users, uuids, now, held>>
               /\ call' = [call EXCEPT ![c] = [@ EXCEPT !.pc = "done"] @@
                                [out |-> [ok |-> FALSE, err |-> HashFault]]]
          ELSE /\ users' = Append(users, [id |-> id, email |-> dto.email,
                                firstName |-> dto.firstName,
                                password |-> hash(dto.password, salt)])
               /\ uuids' = id
               /\ UNCHANGED <<now, held>>
               /\ call' = [call EXCEPT ![c] = [@ EXCEPT !.pc = "done"] @@
                                [out |-> [ok |-> TRUE, id |-> id]]]

\* the caller takes the outcome of its finished call
return(c) ==
    /\ call[c].op # "idle" /\ call[c].pc = "done"
    /\ call' = [call EXCEPT ![c] = Idle]
    /\ UNCHANGED <<users, uuids, now, held>>

\* JwtModule.register({ secret, signOptions: { expiresIn: '1h' } })
JwtSecret == "secretKey"
\* expiresIn: '1h', in the seconds of the token's iat and exp
ExpiresIn == 3600

\* jwtService.sign(payload): iat and exp are added, and the whole is signed
signAt(payload, t) ==
    LET body == payload @@ [iat |-> t, exp |-> t + ExpiresIn]
    IN [payload |-> body, signature |-> <<JwtSecret, body>>]
\* Math.floor(Date.now() / 1000): the clock, kept in milliseconds, read by
\* jsonwebtoken in whole seconds
seconds(ms) == ms \div 1000
sign(payload) == signAt(payload, seconds(now))

\* jwtService.verify that accepts a token in the second it expires
verifyAt_late(token, t) ==
    IF token.signature # <<JwtSecret, token.payload>>
    THEN [ok |-> FALSE, err |-> [name |-> "JsonWebTokenError", message |-> "invalid signature"]]
    ELSE IF t > token.payload.exp
    THEN [ok |-> FALSE, err |-> [name |-> "TokenExpiredError", message |-> "jwt expired"]]
    ELSE [ok |-> TRUE, value |-> token.payload]

\* jwtService.verify(token) at clock t: the signature is checked against the
\* secret, then exp against the clock; the decoded payload is returned
verifyAt(token, t) ==
    IF token.signature # <<JwtSecret, token.payload>>
    THEN [ok |-> FALSE, err |-> [name |-> "JsonWebTokenError", message |-> "invalid signature"]]
    ELSE IF t >= token.payload.exp
    THEN [ok |-> FALSE, err |-> [name |-> "TokenExpiredError", message |-> "jwt expired"]]
    ELSE [ok |-> TRUE, value |-> token.payload]

\* the payload login signs with the id of the next record in place of the user's
tokenClaims_next_id(user) == [sub |-> user.id + 1, email |-> user.email]

\* the payload login signs: { sub: user.id, email: user.email }
tokenClaims(user) == [sub |-> user.id, email |-> user.email]

\* the exception UserService.login throws: new UnauthorizedException(message)
UnauthorizedError(message) == [name |-> "UnauthorizedException", message |-> message]

\* UserController.login's catch, one level above UserService.login: every
\* failure of usersService.login becomes RpcException({ code: 500, message: err.message })
rpcLoginError(message) == [name |-> "RpcException", code |-> 500, message |-> message]

\* some record has this exact email and a password hash that verifies
credentialsMatch(us, email, password) ==
    \E i \in 1..Len(us) : us[i].email = email /\ compare(password, us[i].password)

\* login, up to its await: find the user by email, then compare starts.
\* History field of the call, read by no action: matched (did some record hold
\* this email and a verifying hash when the call was made).
login_find(c, email, password) ==
    /\ call[c] = Idle
    /\ LET i == find_by_email(users, email)
           m == credentialsMatch(users, email, password)
       IN IF i = 0
          THEN call' = [call EXCEPT ![c] =
                   [op |-> "login", pc |-> "done", email |-> email,
                    password |-> password, matched |-> m,
                    out |-> [ok |-> FALSE, err |-> UnauthorizedError("User does not exist")]]]
          ELSE call' = [call EXCEPT ![c] =
                   [op |-> "login", pc |-> "compare", email |-> email,
                    password |-> password, matched |-> m, user |-> users[i]]]
    /\ UNCHANGED <<users, uuids, now, held>>

\* login, after its await: compare's verdict, then jwtService.sign.
\* History fields of the call, read by no action: user (the record found) and
\* at (the clock, in milliseconds, when the call finished).
login_resume(c) ==
    /\ call[c].op = "login" /\ call[c].pc = "compare"
    /\ LET k == call[c]
           done == [op |-> "login", pc |-> "done", email |-> k.email,
                    password |-> k.password, matched |-> k.matched,
                    user |-> k.user, at |-> now]
       IN call' = [call EXCEPT ![c] = done @@
              [out |-> IF compare(k.password, k.user.password)
                       THEN [ok |-> TRUE,
                             token |-> sign(tokenClaims(k.user))]
                       ELSE [ok |-> FALSE, err |-> UnauthorizedError("Invalid credentials")]]]
    /\ UNCHANGED <<users, uuids, now, held>>

\* findOne(id): the User found by id, wrapped as { user }, or NotFoundException
NotFoundError(id) ==
    [name |-> "NotFoundException", code |-> 404, message |-> <<"User with ID", id, "not found">>]

findOne(c, id) ==
    /\ call[c] = Idle
    /\ LET i == find_by_id(users, id)
       IN call' = [call EXCEPT ![c] =
              [op |-> "findOne", pc |-> "done", id |-> id,
               out |-> IF i = 0 THEN [ok |-> FALSE, err |-> NotFoundError(id)]
                                ELSE [ok |-> TRUE, value |-> [user |-> users[i]]]]]
    /\ UNCHANGED <<users, uuids, now, held>>

\* the ids a caller may ask for: every id handed out, and one never handed out
Ids == 1..(MaxUsers + 1)

----------------------------------------------------------------------------
(* Server UserService: listings *)

\* a projection that hands out the records whole
mapUsers_whole_record(us) == us

\* users.map((u) => ({ id: u.id, email: u.email }))
mapUsersToUsersPreview(us) == [i \in 1..Len(us) |-> [id |-> us[i].id, email |-> us[i].email]]

\* Array.prototype.slice(start, end): a negative index counts from the end,
\* both are clamped to 0..length, and the result is empty when start >= end
sliceIndex(len, k) == IF k < 0 THEN (IF len + k < 0 THEN 0 ELSE len + k)
                      ELSE (IF k > len THEN len ELSE k)
slice(s, start, end) ==
    LET from == sliceIndex(Len(s), start)
        to == sliceIndex(Len(s), end)
    IN IF from >= to THEN <<>> ELSE SubSeq(s, from + 1, to)

\* a.email.localeCompare(b.email): negative, zero or positive
localeCompare(a, b) == EmailRank[a] - EmailRank[b]

\* Array.prototype.sort((a, b) => a.email.localeCompare(b.email)): a stable sort
RECURSIVE insertByEmail(_, _)
insertByEmail(sorted, x) ==
    IF sorted = <<>> THEN <<x>>
    ELSE LET last == sorted[Len(sorted)]
         IN IF localeCompare(last.email, x.email) <= 0
            THEN Append(sorted, x)
            ELSE Append(insertByEmail(SubSeq(sorted, 1, Len(sorted) - 1), x), last)

RECURSIVE sortByEmail(_)
sortByEmail(s) ==
    IF s = <<>> THEN <<>>
    ELSE insertByEmail(sortByEmail(SubSeq(s, 1, Len(s) - 1)), s[Len(s)])

\* findAll() without its sort: the previews in insertion order
findAll_unsorted(us) == [users |-> mapUsersToUsersPreview(us)]

\* findAll(): every preview, sorted by email
findAll(us) == [users |-> sortByEmail(mapUsersToUsersPreview(us))]

\* A page is a JavaScript number: its integer part and its first decimal
\* (Num(2) is 2, Decimal(1, 5) is 1.5)
Num(n) == [int |-> n, frac |-> 0]
Decimal(n, d) == [int |-> n, frac |-> d]

\* Number.isInteger(page)
isInteger(x) == x.frac = 0

\* a check that turns page 0 away as well
negative_or_zero(x) == x.int <= 0

\* page < 0
negative(x) == x.int < 0

\* a list of allowed limits that admits 7 as well
allowedLimits_wide == {5, 7, 10, 25}

allowedLimits == {5, 10, 25}

\* an offset that counts pages from zero
offset_from_zero(page, limit) == page.int * limit

\* const start = (page - 1) * limit
offset(page, limit) == (page.int - 1) * limit

\* the previews sorted first and sliced afterwards
pageOf_sorted_first(us, start, end) ==
    slice(sortByEmail(mapUsersToUsersPreview(us)), start, end)

\* this.mapUsersToUsersPreview(this.users).slice(start, end).sort(...)
pageOf(us, start, end) ==
    sortByEmail(slice(mapUsersToUsersPreview(us), start, end))

\* queryUsers whose total is the length of the page it returns
queryUsers_total_of_page(us, request) ==
    LET page == request.page
        limit == request.limit
    IN IF ~isInteger(page) \/ negative(page)
       THEN [ok |-> FALSE, err |-> "Page must be an integer greater or equal to 0"]
       ELSE IF limit \notin allowedLimits
       THEN [ok |-> FALSE, err |-> "Limit must be one of 5, 10, 25"]
       ELSE LET start == offset(page, limit)
                end == start + limit
            IN [ok |-> TRUE,
                value |-> [users |-> pageOf(us, start, end),
                           total |-> Len(pageOf(us, start, end)),
                           page |-> page, limit |-> limit]]

\* the server's queryUsers(request): validation, then slice and sort of the previews
queryUsers(us, request) ==
    LET page == request.page
        limit == request.limit
    IN IF ~isInteger(page) \/ negative(page)
       THEN [ok |-> FALSE, err |-> "Page must be an integer greater or equal to 0"]
       ELSE IF limit \notin allowedLimits
       THEN [ok |-> FALSE, err |-> "Limit must be one of 5, 10, 25"]
       ELSE LET start == offset(page, limit)
                end == start + limit
            IN [ok |-> TRUE,
                value |-> [users |-> pageOf(us, start, end),
                           total |-> Len(us), page |-> page, limit |-> limit]]

----------------------------------------------------------------------------
(* Client UserService: the paginated query channel *)

\* the BadRequestException queryUsers throws for an invalid page or limit
BadRequest(message) == [name |-> "BadRequestException", message |-> message]

\* pageRequest.next({ page, limit }) as seen by one observer's pipeline:
\* switchMap unsubscribes the active inner call and subscribes to
\* this.userService.queryUsers({ page, limit }), which issues the gRPC call
switchMap(q, s, page, limit) ==
    [st |-> "sent", page |-> page, limit |-> limit, from |-> q]

\* nextPage(page, limit): the Subject hands the request to every observer
nextPage(observers, q, page, limit) ==
    [s \in Requesters |-> IF s \in observers THEN switchMap(q, s, page, limit)
                          ELSE inner[s]]

\* the client's queryUsers(page, limit): validation; then, inside the promise,
\* initPagination().subscribe(...) followed by nextPage(+page, +limit)
client_queryUsers(q, page, limit) ==
    /\ query[q] = NoQuery
    /\ IF ~isInteger(page) \/ negative(page)
       THEN /\ query' = [query EXCEPT ![q] = [pc |-> "done", page |-> page, limit |-> limit,
                  out |-> [ok |-> FALSE,
                           err |-> BadRequest("Page must be an integer greater or equal to 0")]]]
            /\ UNCHANGED <<subs, inner, computed, delivered>>
       ELSE IF limit \notin allowedLimits
       THEN /\ query' = [query EXCEPT ![q] = [pc |-> "done", page |-> page, limit |-> limit,
                  out |-> [ok |-> FALSE, err |-> BadRequest("Limit must be one of 5, 10, 25")]]]
            /\ UNCHANGED <<subs, inner, computed, delivered>>
       ELSE /\ subs' = subs \cup {q}
            /\ inner' = nextPage(subs \cup {q}, q, page, limit)
            /\ query' = [query EXCEPT ![q] = [pc |-> "waiting", page |-> page, limit |-> limit]]
            /\ computed' = [computed EXCEPT ![q] = 0]
            /\ delivered' = [delivered EXCEPT ![q] = 0]

\* the server's QueryUsers handler runs for the call of subscriber s
server_queryUsers(s) ==
    /\ inner[s].st = "sent"
    /\ inner' = [inner EXCEPT ![s] =
            [st |-> "answered", page |-> @.page, limit |-> @.limit, from |-> @.from,
             response |-> queryUsers(users, [page |-> @.page, limit |-> @.limit])]]
    /\ computed' = [computed EXCEPT ![inner[s].from] = @ + 1]
    /\ UNCHANGED <<subs, query, delivered>>

\* a next callback that resolves the promise and leaves its subscription open
receive_stays_subscribed(s) ==
    /\ inner[s].st = "answered"
    /\ query' = [query EXCEPT ![s] = [pc |-> "done", page |-> @.page, limit |-> @.limit,
                                      out |-> inner[s].response]]
    /\ inner' = [inner EXCEPT ![s] = NoCall]
    /\ delivered' = [delivered EXCEPT ![inner[s].from] = @ + 1]
    /\ UNCHANGED <<subs, computed>>

\* the answer reaches subscriber s: the next callback resolves the promise and
\* unsubscribes; an RpcException goes to the error callback, which resolves too
receive(s) ==
    /\ inner[s].st = "answered"
    /\ query' = [query EXCEPT ![s] = [pc |-> "done", page |-> @.page, limit |-> @.limit,
                                      out |-> inner[s].response]]
    /\ subs' = subs \ {s}
    /\ inner' = [inner EXCEPT ![s] = NoCall]
    /\ delivered' = [delivered EXCEPT ![inner[s].from] = @ + 1]
    /\ UNCHANGED computed

\* the gRPC call of subscriber s fails in transport: the error callback logs
\* and resolves, and the errored subscription is closed
receive_error(s) ==
    /\ inner[s].st = "sent"
    /\ query' = [query EXCEPT ![s] = [pc |-> "done", page |-> @.page, limit |-> @.limit,
                                      out |-> [ok |-> FALSE, err |-> "UNAVAILABLE"]]]
    /\ subs' = subs \ {s}
    /\ inner' = [inner EXCEPT ![s] = NoCall]
    /\ UNCHANGED <<computed, delivered>>

\* the same failure in the version of queryUsers that subscribes with a next
\* callback only: the errored subscription is closed, nothing calls resolve,
\* and the promise the caller awaits stays pending
receive_error_unhandled(s) ==
    /\ inner[s].st = "sent"
    /\ subs' = subs \ {s}
    /\ inner' = [inner EXCEPT ![s] = NoCall]
    /\ UNCHANGED <<query, computed, delivered>>

\* await new Promise(...) returns: the caller of queryUsers goes on
resume(q) ==
    /\ query[q].pc = "done"
    /\ query' = [query EXCEPT ![q] = NoQuery]
    /\ UNCHANGED <<subs, inner, computed, delivered>>

\* the pages and limits requesters submit
Pages == {Num(-1), Num(1), Num(2)}
Limits == {5, 10, 7}

NextChan ==
    \/ \E q \in Requesters, p \in Pages, l \in Limits :
            client_queryUsers(q, p, l) /\ UNCHANGED serverVars
    \/ \E s \in Requesters : server_queryUsers(s) /\ UNCHANGED serverVars
    \/ \E s \in Requesters : receive(s) /\ UNCHANGED serverVars
    \/ \E s \in Requesters : receive_error(s) /\ UNCHANGED serverVars
    \/ \E q \in Requesters : resume(q) /\ UNCHANGED serverVars

SpecChan == Init /\ [][NextChan]_vars

----------------------------------------------------------------------------
(* Server: the remaining handlers, the clock and the callers' tokens *)

\* findAll() that sorts this.users itself instead of the mapped copy
listUsers_sorts_in_place(c) ==
    /\ call[c] = Idle
    /\ users' = sortByEmail(users)
    /\ call' = [call EXCEPT ![c] =
            [op |-> "findAll", pc |-> "done",
             out |-> [ok |-> TRUE, value |-> findAll(users)]]]
    /\ UNCHANGED <<uuids, now, held>>

\* UserController.listUsers: findAll() of the directory as it is now
listUsers(c) ==
    /\ call[c] = Idle
    /\ call' = [call EXCEPT ![c] =
            [op |-> "findAll", pc |-> "done",
             out |-> [ok |-> TRUE, value |-> findAll(users)]]]
    /\ UNCHANGED <<users, uuids, now, held>>

\* UserController.queryUsers called over gRPC with any request: the server's
\* queryUsers(request) of the directory as it is now
controller_queryUsers(c, request) ==
    /\ call[c] = Idle
    /\ call' = [call EXCEPT ![c] =
            [op |-> "queryUsers", pc |-> "done", request |-> request,
             out |-> queryUsers(users, request)]]
    /\ UNCHANGED <<users, uuids, now, held>>

\* what a caller can present for a token it knows: the token as issued, the
\* token with another subject under the old signature, or the same payload
\* signed with a key that is not the server's
present(token, how) ==
    CASE how = "issued" -> token
      [] how = "tampered" ->
            [payload |-> [token.payload EXCEPT !.sub = @ + 1], signature |-> token.signature]
      [] how = "forged" ->
            [payload |-> token.payload, signature |-> <<"otherKey", token.payload>>]
Presentations == {"issued", "tampered", "forged"}

\* verifyToken(token): jwtService.verify at the current clock.
\* History fields of the call, read by no action: genuine (the token is
\* presented as sign produced it), issued and at (the clock, in milliseconds,
\* when the token was signed and when it is verified).
verifyToken(c, known, how) ==
    /\ call[c] = Idle
    /\ call' = [call EXCEPT ![c] =
            [op |-> "verifyToken", pc |-> "done", token |-> present(known.token, how),
             genuine |-> how = "issued", issued |-> known.issued, at |-> now,
             out |-> verifyAt(present(known.token, how), seconds(now))]]
    /\ UNCHANGED <<users, uuids, now, held>>

\* the tokens the callers know, each with the clock of its signing: the ones
\* logins just returned and the ones kept
knownTokens ==
    {[token |-> call[d].out.token, issued |-> call[d].at] : d \in {e \in Callers :
            call[e].op = "login" /\ call[e].pc = "done" /\ call[e].out.ok}}
    \cup {held[d] : d \in {e \in Callers : held[e] # NoToken}}

\* the caller of a successful login keeps its token
keep(c) ==
    /\ call[c].op = "login" /\ call[c].pc = "done" /\ call[c].out.ok
    /\ held' = [held EXCEPT ![c] = [token |-> call[c].out.token, issued |-> call[c].at]]
    /\ call' = [call EXCEPT ![c] = Idle]
    /\ UNCHANGED <<users, uuids, now>>

\* time passes: d milliseconds
tick(d) ==
    /\ now' = now + d
    /\ UNCHANGED <<users, uuids, call, held>>

----------------------------------------------------------------------------
(* Specifications of the server *)

\* the requests sent straight to the server's QueryUsers handler
DirectRequests == [page : {Num(0), Num(1)}, limit : {5, 7}]

\* callers overlap freely: the event loop interleaves the awaits of their calls
Next ==
    \/ \E c \in Callers, d \in UserDtos :
            Len(users) < MaxUsers /\ create_check(c, d) /\ UNCHANGED clientVars
    \/ \E c \in Callers, s \in Salts : create_resume(c, s) /\ UNCHANGED clientVars
    \/ \E c \in Callers, e \in Emails, p \in Passwords :
            login_find(c, e, p) /\ UNCHANGED clientVars
    \/ \E c \in Callers : login_resume(c) /\ UNCHANGED clientVars
    \/ \E c \in Callers, i \in Ids : findOne(c, i) /\ UNCHANGED clientVars
    \/ \E c \in Callers : listUsers(c) /\ UNCHANGED clientVars
    \/ \E c \in Callers, r \in DirectRequests :
            controller_queryUsers(c, r) /\ UNCHANGED clientVars
    \/ \E c \in Callers, k \in knownTokens, h \in Presentations :
            verifyToken(c, k, h) /\ UNCHANGED clientVars
    \/ \E c \in Callers : return(c) /\ UNCHANGED clientVars

Spec == Init /\ [][Next]_vars

\* every call completes before the next starts, and candidates are well formed
AllIdle == \A c \in Callers : call[c] = Idle

NextSeq ==
    \/ \E c \in Callers, d \in WellFormedDtos :
            AllIdle /\ Len(users) < MaxUsers /\ create_check(c, d) /\ UNCHANGED clientVars
    \/ \E c \in Callers, s \in Salts : create_resume(c, s) /\ UNCHANGED clientVars
    \/ \E c \in Callers, e \in SeqEmails, p \in Passwords :
            AllIdle /\ login_find(c, e, p) /\ UNCHANGED clientVars
    \/ \E c \in Callers : login_resume(c) /\ UNCHANGED clientVars
    \/ \E c \in Callers, i \in Ids : AllIdle /\ findOne(c, i) /\ UNCHANGED clientVars
    \/ \E c \in Callers : return(c) /\ UNCHANGED clientVars

SpecSeq == Init /\ [][NextSeq]_vars

\* Registrations overlap one another, as registerAllUsers puts its Register
\* calls on the wire together; the reads are made one at a time once the
\* registrations have settled, as onModuleInit awaits them: a driver lists and
\* queries the server, and one requester goes through the client's queryUsers.
Driver == "c1"
Viewer == "r1"
PageDtos == [email : PageEmails, password : {"pw1"}, firstName : {"n"}]
PageNumbers == {Num(-1), Num(0), Num(1), Num(2), Num(3), Decimal(1, 5)}
PageRequests == [page : PageNumbers, limit : Limits]

\* nothing is in progress, at the server or in the client
Quiet == AllIdle /\ \A q \in Requesters : query[q] = NoQuery

\* nothing but registrations is in progress
Registering ==
    /\ \A c \in Callers : call[c].op \in {"idle", "create"}
    /\ \A q \in Requesters : query[q] = NoQuery

\* the registrations waiting for their hash
hashing == {c \in Callers : call[c].op = "create" /\ call[c].pc = "hash"}

NextPage ==
    \/ \E c \in Callers, dto \in PageDtos :
            /\ Registering /\ Len(users) + Cardinality(hashing) < MaxPageUsers
            /\ create_check(c, dto) /\ UNCHANGED clientVars
    \/ \E c \in Callers, salt \in Salts : create_resume(c, salt) /\ UNCHANGED clientVars
    \/ Quiet /\ listUsers(Driver) /\ UNCHANGED clientVars
    \/ \E r \in PageRequests :
            Quiet /\ controller_queryUsers(Driver, r) /\ UNCHANGED clientVars
    \/ \E c \in Callers : return(c) /\ UNCHANGED clientVars
    \/ \E r \in PageRequests :
            Quiet /\ client_queryUsers(Viewer, r.page, r.limit) /\ UNCHANGED serverVars
    \/ server_queryUsers(Viewer) /\ UNCHANGED serverVars
    \/ receive(Viewer) /\ UNCHANGED serverVars
    \/ resume(Viewer) /\ UNCHANGED serverVars

SpecPage == Init /\ [][NextPage]_vars

\* One caller registers, logs in, keeps its token and presents it for
\* verification while time passes, up to just before and just after the hour.
MaxClock == 5400000
ClockSteps == {1799750, 1800000}
TokenDtos == [email : Emails, password : {"pw1"}, firstName : {"n"}]

NextToken ==
    \/ \E dto \in TokenDtos :
            /\ AllIdle /\ Len(users) < MaxUsers
            /\ create_check(Driver, dto) /\ UNCHANGED clientVars
    \/ \E salt \in Salts : create_resume(Driver, salt) /\ UNCHANGED clientVars
    \/ \E e \in Emails : login_find(Driver, e, "pw1") /\ UNCHANGED clientVars
    \/ login_resume(Driver) /\ UNCHANGED clientVars
    \/ keep(Driver) /\ UNCHANGED clientVars
    \/ \E k \in knownTokens, h \in Presentations :
            verifyToken(Driver, k, h) /\ UNCHANGED clientVars
    \/ return(Driver) /\ UNCHANGED clientVars
    \/ \E d \in ClockSteps : now + d <= MaxClock /\ tick(d) /\ UNCHANGED clientVars

SpecToken == Init /\ [][NextToken]_vars

\* The startup driver's discipline for the whole service: registrations that
\* overlap one another (registerAllUsers), and the queryUsers calls of both
\* requesters, each submitted only when nothing else is in progress.
NextDriver ==
    \/ \E c \in Callers, dto \in TokenDtos :
            /\ Registering /\ Len(users) + Cardinality(hashing) < MaxUsers
            /\ create_check(c, dto) /\ UNCHANGED clientVars
    \/ \E c \in Callers, salt \in Salts : create_resume(c, salt) /\ UNCHANGED clientVars
    \/ \E c \in Callers : return(c) /\ UNCHANGED clientVars
    \/ \E q \in Requesters, p \in Pages, l \in Limits :
            Quiet /\ client_queryUsers(q, p, l) /\ UNCHANGED serverVars
    \/ \E s \in Requesters : server_queryUsers(s) /\ UNCHANGED serverVars
    \/ \E s \in Requesters : receive(s) /\ UNCHANGED serverVars
    \/ \E q \in Requesters : resume(q) /\ UNCHANGED serverVars

SpecDriver == Init /\ [][NextDriver]_vars

\* The same discipline with server calls that can fail in transport; the
\* source holds queryUsers both with and without an error callback.
NextFail ==
    \/ \E c \in Callers, dto \in TokenDtos :
            /\ Registering /\ Len(users) + Cardinality(hashing) < MaxUsers
            /\ create_check(c, dto) /\ UNCHANGED clientVars
    \/ \E c \in Callers, salt \in Salts : create_resume(c, salt) /\ UNCHANGED clientVars
    \/ \E c \in Callers : return(c) /\ UNCHANGED clientVars
    \/ \E q \in Requesters, p \in Pages, l \in Limits :
            Quiet /\ client_queryUsers(q, p, l) /\ UNCHANGED serverVars
    \/ \E s \in Requesters : server_queryUsers(s) /\ UNCHANGED serverVars
    \/ \E s \in Requesters : receive(s) /\ UNCHANGED serverVars
    \/ \E s \in Requesters : receive_error(s) /\ UNCHANGED serverVars
    \/ \E s \in Requesters : receive_error_unhandled(s) /\ UNCHANGED serverVars
    \/ \E q \in Requesters : resume(q) /\ UNCHANGED serverVars

SpecFail == Init /\ [][NextFail]_vars

----------------------------------------------------------------------------
(* Claims about the directory *)

\* C1: under every interleaving of concurrent register calls the directory
\* never holds two records with the same email.
C1_NoDuplicateEmail ==
    \A i, j \in 1..Len(users) : i # j => users[i].email # users[j].email

\* C2: for register calls made one after another, a call with an email not in
\* the directory succeeds, returns the id of the new record and grows the
\* directory by exactly that one record; a call with an email in the directory
\* fails with DuplicateEmail (409) and leaves the record count unchanged.
C2_SequentialRegister ==
    \A c \in Callers :
        call[c].op = "create" =>
            IF call[c].pc = "hash"
            THEN ~call[c].taken /\ Len(users) = call[c].before
            ELSE IF call[c].taken
                 THEN /\ ~call[c].out.ok
                      /\ call[c].out.err.statusCode = 409
                      /\ Len(users) = call[c].before
                 ELSE /\ call[c].out.ok
                      /\ Len(users) = call[c].before + 1
                      /\ users[Len(users)].email = call[c].dto.email
                      /\ users[Len(users)].id = call[c].out.id
                      /\ SubSeq(users, 1, call[c].before) = SubSeq(users, 1, Len(users) - 1)

\* C2's case: a second registration of an email was rejected with two records stored
C2_Witness ==
    \E c \in Callers :
        /\ call[c].op = "create" /\ call[c].pc = "done"
        /\ call[c].taken /\ ~call[c].out.ok
        /\ call[c].dto.email = users[1].email
        /\ Len(users) = 2

\* C3: a register call that fails (DuplicateEmail or a hashing fault) changes
\* the directory in none of its steps: the step in which a call is made and
\* the step in which a call ends in failure leave users as it was.
C3_FailedRegisterNoMutation ==
    [][\A c \in Callers :
          /\ (call[c] = Idle /\ call'[c].op = "create") => users' = users
          /\ (call[c] # call'[c] /\ call'[c].op = "create" /\ call'[c].pc = "done"
                /\ ~call'[c].out.ok) => users' = users]_vars

\* C3's case: a call failed on a hashing fault while the directory held records
C3_Witness ==
    \E c \in Callers :
        /\ call[c].op = "create" /\ call[c].pc = "done"
        /\ ~call[c].out.ok /\ call[c].out.err = HashFault
        /\ Len(users) > 0

\* C4: login returns a token if and only if, when it is called, some record has
\* exactly the given email and a password hash that verifies the given password.
C4_LoginIffMatch ==
    \A c \in Callers :
        (call[c].op = "login" /\ call[c].pc = "done") =>
            (call[c].out.ok <=> call[c].matched)

\* C5: the failure a caller observes from login is the same value whatever its
\* cause (unknown email, wrong password): the exception of UserService.login,
\* and the RpcException UserController.login makes of it.
C5_UniformLoginFailure ==
    \A c, d \in Callers :
        ( /\ call[c].op = "login" /\ call[c].pc = "done" /\ ~call[c].out.ok
          /\ call[d].op = "login" /\ call[d].pc = "done" /\ ~call[d].out.ok )
        => /\ call[c].out.err = call[d].out.err
           /\ rpcLoginError(call[c].out.err.message) = rpcLoginError(call[d].out.err.message)

\* C6: the view findOne returns never includes the stored password hash.
C6_ViewHidesPassword ==
    \A c \in Callers :
        (call[c].op = "findOne" /\ call[c].pc = "done" /\ call[c].out.ok) =>
            "password" \notin DOMAIN call[c].out.value.user

\* the gRPC calls a subscriber's pipeline can have in flight
SentCalls == [st : {"sent"}, page : Pages, limit : Limits, from : Requesters]

\* the server answers the call k of subscriber s
answers(s, k) == inner[s] = k /\ server_queryUsers(s) /\ UNCHANGED serverVars

\* the server answers every call that is not cancelled, every answer that is
\* not cancelled is delivered, and every resolved promise resumes its caller
ChanFairness ==
    /\ \A s \in Requesters : \A k \in SentCalls : WF_vars(answers(s, k))
    /\ \A s \in Requesters : WF_vars(receive(s) /\ UNCHANGED serverVars)
    /\ \A q \in Requesters : WF_vars(resume(q) /\ UNCHANGED serverVars)

SpecChanFair == Init /\ [][NextChan]_vars /\ ChanFairness

----------------------------------------------------------------------------
(* Claims about the paginated query channel *)

\* C7: the result that completes a requester's queryUsers call has the page
\* and the limit that requester submitted.
C7_OwnResult ==
    \A q \in Requesters :
        (query[q].pc = "done" /\ query[q].out.ok) =>
            /\ query[q].out.value.page = query[q].page
            /\ query[q].out.value.limit = query[q].limit

\* C8: page requests are computed one at a time: a call for a request is not
\* issued while an earlier call is outstanding (issued, its result not yet
\* delivered), so at no time are two page computations in progress.
C8_OneAtATime ==
    Cardinality({s \in Requesters : inner[s] # NoCall}) <= 1

\* C9: every submitted request is computed exactly once and delivered exactly
\* once: never more than once, and a call completed by a result had its own
\* request computed and delivered.
C9_ExactlyOnce ==
    \A q \in Requesters :
        /\ computed[q] <= 1
        /\ delivered[q] <= 1
        /\ (query[q].pc = "done" /\ query[q].out.ok) =>
                (computed[q] = 1 /\ delivered[q] = 1)

\* C10: every queryUsers call with a valid page and limit eventually completes.
C10_QueryCompletes ==
    \A q \in Requesters : (query[q].pc = "waiting") ~> (query[q].pc = "done")

----------------------------------------------------------------------------
(* Claims about the listings *)

\* a request the contract calls invalid: limit outside 5, 10, 25, or a page
\* that is negative or has a fractional part
InvalidPageRequest(page, limit) ==
    \/ limit # 5 /\ limit # 10 /\ limit # 25
    \/ page.int < 0
    \/ page.frac # 0

\* C11: a query with a limit outside {5, 10, 25}, or a negative or
\* non-integer page, is rejected and does nothing else: the client's queryUsers
\* throws BadRequestException leaving the subscribers and their calls as they
\* were (nothing subscribed, nothing emitted, no server call), and the server's
\* handler fails with one of its two fixed messages, the directory untouched.
C11_InvalidRejected ==
    [][/\ \A q \in Requesters :
            (/\ query[q] = NoQuery /\ query'[q] # NoQuery
             /\ InvalidPageRequest(query'[q].page, query'[q].limit))
            => /\ query'[q].pc = "done"
               /\ ~query'[q].out.ok
               /\ query'[q].out.err.name = "BadRequestException"
               /\ subs' = subs /\ inner' = inner /\ users' = users
       /\ \A c \in Callers :
            (/\ call[c] = Idle /\ call'[c].op = "queryUsers"
             /\ InvalidPageRequest(call'[c].request.page, call'[c].request.limit))
            => /\ ~call'[c].out.ok
               /\ call'[c].out.err \in {"Page must be an integer greater or equal to 0",
                                        "Limit must be one of 5, 10, 25"}
               /\ users' = users]_vars

\* a client query with page 1.5 was rejected while the directory held records
C11_Witness ==
    /\ query[Viewer].pc = "done"
    /\ query[Viewer].page = Decimal(1, 5)
    /\ ~query[Viewer].out.ok
    /\ Len(users) > 0

\* a queryUsers call was just made straight to the server by caller c
ServerQueryStep(c) == call[c] = Idle /\ call'[c].op = "queryUsers"

\* the server just computed the answer to the call of subscriber s
ChannelQueryStep(s) == inner[s].st = "sent" /\ inner'[s].st = "answered"

\* C12: for every valid (page, limit) the page computation succeeds, its
\* result carries the requested page and limit, and its total is the number of
\* records the directory holds when the computation runs.
C12_TotalAndEcho ==
    [][/\ \A c \in Callers :
            (/\ ServerQueryStep(c)
             /\ ~InvalidPageRequest(call'[c].request.page, call'[c].request.limit))
            => /\ call'[c].out.ok
               /\ call'[c].out.value.page = call'[c].request.page
               /\ call'[c].out.value.limit = call'[c].request.limit
               /\ call'[c].out.value.total = Len(users)
       /\ \A s \in Requesters :
            (/\ ChannelQueryStep(s)
             /\ ~InvalidPageRequest(inner[s].page, inner[s].limit))
            => /\ inner'[s].response.ok
               /\ inner'[s].response.value.page = inner[s].page
               /\ inner'[s].response.value.limit = inner[s].limit
               /\ inner'[s].response.value.total = Len(users)]_vars

\* three users are registered and queryUsers(1, 5) answered with total 3
C12_Witness ==
    /\ call[Driver].op = "queryUsers"
    /\ call[Driver].request = [page |-> Num(1), limit |-> 5]
    /\ Len(users) = 3
    /\ call[Driver].out.ok
    /\ call[Driver].out.value.total = 3

\* the positions (counted from 1) of the records a page covers: insertion
\* positions (page-1)*L up to but excluding page*L, counted from 0, that exist
Window(us, page, L) == {i \in 1..Len(us) : (page - 1) * L < i /\ i <= page * L}

\* the previews of the records at the positions I
PreviewsAt(us, I) == {[id |-> us[i].id, email |-> us[i].email] : i \in I}

\* a sequence of previews in ascending email order
Ascending(ps) ==
    \A i, j \in 1..Len(ps) : i < j => EmailRank[ps[i].email] <= EmailRank[ps[j].email]

\* ps lists exactly the previews of the records at the positions I, each once,
\* in ascending email order
ListsExactly(ps, us, I) ==
    /\ Len(ps) = Cardinality(I)
    /\ {ps[i] : i \in 1..Len(ps)} = PreviewsAt(us, I)
    /\ Ascending(ps)

\* C13: for page >= 1 and an allowed limit L the users of the result are
\* exactly the previews of the records at insertion positions (page-1)*L up to
\* but excluding page*L, clipped to the record count, in ascending email order.
C13_PageWindow ==
    [][/\ \A c \in Callers :
            (/\ ServerQueryStep(c)
             /\ ~InvalidPageRequest(call'[c].request.page, call'[c].request.limit)
             /\ call'[c].request.page.int >= 1)
            => /\ call'[c].out.ok
               /\ ListsExactly(call'[c].out.value.users, users,
                      Window(users, call'[c].request.page.int, call'[c].request.limit))
               /\ Len(call'[c].out.value.users) <= call'[c].request.limit
       /\ \A s \in Requesters :
            (/\ ChannelQueryStep(s)
             /\ ~InvalidPageRequest(inner[s].page, inner[s].limit)
             /\ inner[s].page.int >= 1)
            => /\ inner'[s].response.ok
               /\ ListsExactly(inner'[s].response.value.users, users,
                      Window(users, inner[s].page.int, inner[s].limit))
               /\ Len(inner'[s].response.value.users) <= inner[s].limit]_vars

\* six records registered with d@x.com first: queryUsers(1, 5) answered with
\* the first five in email order, d@x.com last
C13_Witness ==
    /\ call[Driver].op = "queryUsers"
    /\ call[Driver].request = [page |-> Num(1), limit |-> 5]
    /\ Len(users) = 6
    /\ users[1].email = "d@x.com"
    /\ \A i \in 2..5 : users[i].email # "d@x.com"
    /\ call[Driver].out.ok
    /\ Len(call[Driver].out.value.users) = 5
    /\ call[Driver].out.value.users[5] = [id |-> users[1].id, email |-> "d@x.com"]

\* C14: findAll returns exactly one preview for every record the directory
\* holds when it is called (none missing, none repeated), in ascending email
\* order, computed from the directory as it is at that call.
C14_ListAll ==
    [][\A c \in Callers :
            (call[c] = Idle /\ call'[c].op = "findAll")
            => /\ call'[c].out.ok
               /\ ListsExactly(call'[c].out.value.users, users, 1..Len(users))]_vars

\* b@x.com, c@x.com and a@x.com were registered in this order and findAll
\* answered a@x.com, b@x.com, c@x.com
C14_Witness ==
    /\ call[Driver].op = "findAll"
    /\ Len(users) = 3
    /\ users[1].email = "b@x.com" /\ users[2].email = "c@x.com" /\ users[3].email = "a@x.com"
    /\ call[Driver].out.value.users =
          << [id |-> 3, email |-> "a@x.com"], [id |-> 1, email |-> "b@x.com"],
             [id |-> 2, email |-> "c@x.com"] >>

\* the users of page p of limit L, as the server answers
usersOfPage(us, p, L) == queryUsers(us, [page |-> Num(p), limit |-> L]).value.users

\* pages p, p+1, ... of limit L one after another, up to the last page that
\* holds a record
RECURSIVE pagesFrom(_, _, _)
pagesFrom(us, p, L) ==
    IF (p - 1) * L >= Len(us) THEN <<>>
    ELSE usersOfPage(us, p, L) \o pagesFrom(us, p + 1, L)

\* the page (counted from 1) that insertion position i (counted from 1) is on
pageOfPosition(i, L) == ((i - 1) \div L) + 1

\* no record on an earlier page has an email after that of a record on a later page
OrderedAcrossPages(us, L) ==
    \A i, j \in 1..Len(us) :
        pageOfPosition(i, L) < pageOfPosition(j, L)
        => EmailRank[us[i].email] <= EmailRank[us[j].email]

\* C18: the sort is applied to each page by itself: every page is in
\* ascending email order, and the pages of a fixed limit read one after another
\* over an unchanged directory equal findAll's list exactly when no record on
\* an earlier page has an email after that of a record on a later page; so
\* they differ for directories registered out of email order across a page
\* boundary.
C18_SortPerPage ==
    \A L \in {5, 10} :
        /\ \A p \in 1..3 : Ascending(usersOfPage(users, p, L))
        /\ (pagesFrom(users, 1, L) = findAll(users).users) <=> OrderedAcrossPages(users, L)

\* six records, a@x.com registered last: page 2 of limit 5 was just answered
\* with a@x.com alone, and pages 1 and 2 together differ from findAll's list
C18_Witness ==
    /\ Len(users) = 6
    /\ users[6].email = "a@x.com"
    /\ call[Driver].op = "queryUsers"
    /\ call[Driver].request = [page |-> Num(2), limit |-> 5]
    /\ call[Driver].out.value.users = <<[id |-> 6, email |-> "a@x.com"]>>
    /\ pagesFrom(users, 1, 5) # findAll(users).users
    /\ pagesFrom(users, 1, 5)[6].email = "a@x.com"
    /\ findAll(users).users[1].email = "a@x.com"

\* C19: page 0 passes the validation of the client and of the server; the
\* result has no users, whatever the directory holds, and its total is the
\* full record count.
C19_PageZeroEmpty ==
    [][/\ \A q \in Requesters :
            (/\ query[q] = NoQuery /\ query'[q] # NoQuery
             /\ query'[q].page = Num(0) /\ query'[q].limit \in {5, 10, 25})
            => /\ query'[q].pc = "waiting"
               /\ q \in subs'
               /\ inner'[q] = [st |-> "sent", page |-> Num(0),
                               limit |-> query'[q].limit, from |-> q]
       /\ \A s \in Requesters :
            (ChannelQueryStep(s) /\ inner[s].page = Num(0))
            => /\ inner'[s].response.ok
               /\ inner'[s].response.value.users = <<>>
               /\ inner'[s].response.value.total = Len(users)
       /\ \A c \in Callers :
            (/\ ServerQueryStep(c) /\ call'[c].request.page = Num(0)
             /\ call'[c].request.limit \in {5, 10, 25})
            => /\ call'[c].out.ok
               /\ call'[c].out.value.users = <<>>
               /\ call'[c].out.value.total = Len(users)]_vars

\* the client's queryUsers(0, 10) over a directory of six records completed
\* with no users and total 6
C19_Witness ==
    /\ query[Viewer].pc = "done"
    /\ query[Viewer].page = Num(0) /\ query[Viewer].limit = 10
    /\ Len(users) = 6
    /\ query[Viewer].out.ok
    /\ query[Viewer].out.value.users = <<>>
    /\ query[Viewer].out.value.total = 6

----------------------------------------------------------------------------
(* Claims about lookups, tokens and the frame of the directory *)

\* C15: findOne(id) returns the record whose id is the given id when the
\* directory holds one, and fails with NotFoundException when it holds none;
\* it never returns a record with another id.
C15_GetOne ==
    [][\A c \in Callers :
            (call[c] = Idle /\ call'[c].op = "findOne")
            => LET id == call'[c].id
                   out == call'[c].out
               IN IF \E i \in 1..Len(users) : users[i].id = id
                  THEN /\ out.ok
                       /\ out.value.user.id = id
                       /\ \E i \in 1..Len(users) : users[i] = out.value.user
                  ELSE /\ ~out.ok
                       /\ out.err.name = "NotFoundException"]_vars

\* with two records in the directory findOne returned the second one
C15_Witness ==
    \E c \in Callers :
        /\ call[c].op = "findOne"
        /\ call[c].out.ok
        /\ Len(users) >= 2
        /\ call[c].id = users[2].id
        /\ call[c].out.value.user = users[2]

\* C16: the token of a successful login carries the id (as sub) and the email
\* of the record that matched the login email: the first record with that
\* email, and no other record has that id.
C16_TokenOfMatchedRecord ==
    \A c \in Callers :
        (call[c].op = "login" /\ call[c].pc = "done" /\ call[c].out.ok)
        => LET claims == call[c].out.token.payload
               hits == {i \in 1..Len(users) : users[i].email = call[c].email}
           IN /\ hits # {}
              /\ \E i \in hits :
                    /\ \A j \in hits : i <= j
                    /\ claims.sub = users[i].id
                    /\ claims.email = users[i].email
                    /\ \A j \in 1..Len(users) : users[j].id = claims.sub => j = i

\* a login matched the second record of the directory and its token carries
\* that record's id and email
C16_Witness ==
    \E c \in Callers :
        /\ call[c].op = "login" /\ call[c].pc = "done" /\ call[c].out.ok
        /\ Len(users) >= 2
        /\ call[c].email = users[2].email
        /\ users[1].email # users[2].email
        /\ call[c].out.token.payload.sub = users[2].id

\* a verifyToken call that has finished
Verified(k) == k.op = "verifyToken" /\ k.pc = "done"

\* C17 as stated: verifyToken returns the claims exactly when the token is as
\* sign produced it and less than one hour (of the millisecond clock) has
\* passed since it was signed.
C17_ValidForOneHour ==
    \A c \in Callers :
        Verified(call[c])
        => (call[c].out.ok <=>
               (call[c].genuine /\ call[c].at - call[c].issued < ExpiresIn * 1000))

\* C17, amended: verifyToken returns the claims given to sign (with iat and
\* exp) exactly when the token is as sign produced it and the whole second of
\* the clock at verification is less than 3600 past the whole second at which
\* it was signed; a modified or expired token fails with JsonWebTokenError or
\* TokenExpiredError; and a token that has failed to verify does not verify
\* at any later clock.
C17_ValidForOneHourOfSeconds ==
    [][/\ \A c \in Callers :
            Verified(call'[c])
            => LET k == call'[c]
               IN /\ k.out.ok <=>
                        (k.genuine /\ seconds(k.at) - seconds(k.issued) < ExpiresIn)
                  /\ k.out.ok =>
                        /\ \E i \in 1..Len(users) :
                              /\ k.out.value.sub = users[i].id
                              /\ k.out.value.email = users[i].email
                        /\ k.out.value.iat = seconds(k.issued)
                        /\ k.out.value.exp = seconds(k.issued) + ExpiresIn
                  /\ ~k.out.ok =>
                        k.out.err.name \in {"JsonWebTokenError", "TokenExpiredError"}
       /\ \A k \in knownTokens, h \in Presentations :
            ~verifyAt(present(k.token, h), seconds(now)).ok
            => ~verifyAt(present(k.token, h), seconds(now')).ok]_vars

\* a token as signed was turned away as expired 3599750 milliseconds after it
\* was signed
C17_Witness ==
    /\ Verified(call[Driver])
    /\ call[Driver].genuine
    /\ call[Driver].at - call[Driver].issued = 3599750
    /\ ~call[Driver].out.ok
    /\ call[Driver].out.err.name = "TokenExpiredError"

\* caller c's create has just finished with a new id
RegisterSucceeds(c) ==
    /\ call[c].op = "create" /\ call[c].pc = "hash"
    /\ call'[c].pc = "done" /\ call'[c].out.ok

\* C20: the directory is append-only: every step leaves users as it was or
\* extends it by exactly one record at the end, and extends it only as the step
\* in which a create succeeds; login, verifyToken, findOne, findAll and
\* queryUsers leave it untouched.
C20_AppendOnly ==
    [][/\ \/ users' = users
          \/ /\ Len(users') = Len(users) + 1
             /\ SubSeq(users', 1, Len(users)) = users
             /\ \E c \in Callers :
                   /\ RegisterSucceeds(c)
                   /\ users'[Len(users')].id = call'[c].out.id
                   /\ users'[Len(users')].email = call[c].dto.email
       /\ \A c \in Callers :
            (call'[c] # call[c] /\ call'[c].op \in {"login", "verifyToken", "findOne",
                                                    "findAll", "queryUsers"})
            => users' = users]_vars

\* findAll answered a@x.com before b@x.com while the directory still holds
\* b@x.com before a@x.com
C20_Witness ==
    \E c \in Callers :
        /\ call[c].op = "findAll"
        /\ Len(users) = 2
        /\ users[1].email = "b@x.com" /\ users[2].email = "a@x.com"
        /\ call[c].out.value.users[1].email = "a@x.com"

\* what bcrypt's hash can have produced for a password a caller supplied
Hashes == {hash(p, salt) : p \in Passwords, salt \in Salts}

\* a record as create builds it: an id randomUUID handed out and a password
\* field that is the hash of a supplied password
FullyConstructed(u) == u.id \in 1..uuids /\ u.password \in Hashes

\* C21: in every reachable state, creates waiting between their uniqueness
\* check and their push included, every record of the directory has its
\* generated id and a hashed password, and so has every record a read has
\* taken from it (login's find, findOne).
C21_FullyConstructed ==
    /\ \A i \in 1..Len(users) : FullyConstructed(users[i])
    /\ \A c \in Callers :
          /\ (call[c].op = "login" /\ call[c].pc = "compare")
                => FullyConstructed(call[c].user)
          /\ (call[c].op = "findOne" /\ call[c].pc = "done" /\ call[c].out.ok)
                => FullyConstructed(call[c].out.value.user)

\* one create waits for its hash while findOne has read a record of the directory
C21_Witness ==
    \E c, d \in Callers :
        /\ call[c].op = "create" /\ call[c].pc = "hash"
        /\ call[d].op = "findOne" /\ call[d].pc = "done" /\ call[d].out.ok
        /\ Len(users) >= 1
        /\ call[c].dto.email \notin emailsOf(users)

\* p consists of exactly the id and the email of a record of us
PreviewOfSome(p, us) ==
    /\ DOMAIN p = {"id", "email"}
    /\ \E i \in 1..Len(us) : p.id = us[i].id /\ p.email = us[i].email

\* C22: every preview findAll or queryUsers returns consists of exactly the
\* id and the email of one record the directory holds at the call, with no
\* other field, and the projection keeps the order of the records it is given.
C22_PreviewIsIdAndEmail ==
    [][/\ \A c \in Callers :
            (/\ call[c] = Idle /\ call'[c].op \in {"findAll", "queryUsers"}
             /\ call'[c].out.ok)
            => \A k \in 1..Len(call'[c].out.value.users) :
                    PreviewOfSome(call'[c].out.value.users[k], users)
       /\ \A s \in Requesters :
            (ChannelQueryStep(s) /\ inner'[s].response.ok)
            => \A k \in 1..Len(inner'[s].response.value.users) :
                    PreviewOfSome(inner'[s].response.value.users[k], users)
       /\ LET ps == mapUsersToUsersPreview(users)
          IN /\ Len(ps) = Len(users)
             /\ \A i \in 1..Len(users) :
                    /\ DOMAIN ps[i] = {"id", "email"}
                    /\ ps[i].id = users[i].id /\ ps[i].email = users[i].email]_vars

\* findAll listed, first, the preview of the record registered second
C22_Witness ==
    /\ call[Driver].op = "findAll"
    /\ Len(users) >= 2
    /\ call[Driver].out.value.users[1] = [id |-> users[2].id, email |-> users[2].email]
    /\ DOMAIN users[2] = {"id", "email", "firstName", "password"}

\* page p of limit L is full: the directory holds at least p*L records
FullPage(us, p, L) == p * L <= Len(us)

\* C23: a full page is stable under later registrations: once the directory
\* holds at least p*L records, no step changes the users that queryUsers
\* answers for page p >= 1 of limit L, in content or in order.
C23_FullPagesStable ==
    [][\A L \in {5, 10}, p \in 1..3 :
            FullPage(users, p, L)
            => usersOfPage(users', p, L) = usersOfPage(users, p, L)]_vars

\* page 1 of limit 5 was answered after a sixth record was registered, and
\* it is what the first five records alone give
C23_Witness ==
    /\ call[Driver].op = "queryUsers"
    /\ call[Driver].request = [page |-> Num(1), limit |-> 5]
    /\ Len(users) = 6
    /\ EmailRank[users[6].email] < EmailRank[users[1].email]
    /\ call[Driver].out.value.users = usersOfPage(SubSeq(users, 1, 5), 1, 5)
    /\ call[Driver].out.value.total = 6

----------------------------------------------------------------------------
(* Claims about queries that do not overlap, and about failed server calls *)

\* C24: when queryUsers calls do not overlap, a call that passed validation
\* completes after exactly one server computation and one delivery caused by
\* it, with the result for its own page and limit and the record count of the
\* directory; no subscriber or inner call of a completed or idle call remains;
\* and a submission reaches the submitter's pipeline only.
C24_OneComputationEach ==
    [][/\ \A q \in Requesters :
            (query'[q].pc = "done" /\ query'[q].out.ok)
            => /\ computed'[q] = 1 /\ delivered'[q] = 1
               /\ query'[q].out.value.page = query'[q].page
               /\ query'[q].out.value.limit = query'[q].limit
               /\ query'[q].out.value.total = Len(users')
       /\ \A q \in Requesters :
            query'[q].pc \in {"idle", "done"} => (q \notin subs' /\ inner'[q] = NoCall)
       /\ \A q \in Requesters :
            (query[q] = NoQuery /\ query'[q].pc = "waiting")
            => /\ subs' = {q}
               /\ \A s \in Requesters \ {q} : inner'[s] = NoCall]_vars

\* r2's queryUsers(2, 5) completed, after r1's call had completed and gone,
\* with its own page over a directory of two records
C24_Witness ==
    /\ query["r2"].pc = "done"
    /\ query["r2"].page = Num(2) /\ query["r2"].limit = 5
    /\ query["r2"].out.ok
    /\ query["r2"].out.value.page = Num(2)
    /\ computed["r1"] = 1 /\ delivered["r1"] = 1
    /\ query["r1"] = NoQuery
    /\ computed["r2"] = 1 /\ delivered["r2"] = 1
    /\ subs = {}
    /\ Len(users) = 2

\* C25: when the server call behind a queryUsers call fails, the waiting call
\* still completes: a call that waits always has its subscription and an inner
\* call that can still answer or fail into it, so it never stays pending for good.
C25_FailedCallCompletes ==
    \A q \in Requesters :
        query[q].pc = "waiting" => (q \in subs /\ inner[q].st \in {"sent", "answered"})


====
